---------------------------- MODULE Spec2Model ----------------------------
(***************************************************************************)
(* Notification core of backend/app.py: the preference store, the         *)
(* APScheduler job set built by schedule_notification_jobs, the sweep     *)
(* check_upcoming_vacations run by every job, the SMS sender              *)
(* send_sms_notification with its history log, and the request handlers   *)
(* that change what a sweep reads (preference update, approve, deny);     *)
(* and the business-day calendar (get_us_holidays, is_business_day,       *)
(* calculate_business_days, get_next_business_day_backend) with the       *)
(* handler that creates a vacation request from it.                       *)
(*                                                                         *)
(* The sweep's dates are day numbers; the calendar's dates are records    *)
(* [year, month, day].  A clock time is a record [hour, minute, second].  *)
(* A time string of a request is the sequence of its colon-separated      *)
(* numeric fields ("09:00:30" is <<9, 0, 30>>).  A phone number is a      *)
(* sequence of one-character strings.                                     *)
(***************************************************************************)
EXTENDS Integers, Sequences, FiniteSets, TLC

\* ------------------------------------------------------------------ bounds
MaxDay == 1
YearSpan == 27
DateYearSpan == 3
MaxSpan == 7
MaxBack == 2
MaxRequests == 2
MaxDaysUntil == 3
MaxSent == 3

\* ------------------------------------------------------------ fixed data
Sups == {1, 2}
Vacs == {1, 2}

None == <<"None">>
Truthy(x) == x # None /\ x # <<>>

\* supervisors.phone_number of the two supervisors (the second has none)
SupervisorPhone == [s \in Sups |-> IF s = 1 THEN <<"5", "-", "7">> ELSE None]

\* supervisor owning each vacation request
VacationSupervisor == [v \in Vacs |-> 1]

\* vacation_requests.start_date of each request
VacationStart == [v \in Vacs |-> IF v = 1 THEN 1 ELSE 3]

\* ------------------------------------------------------- request inputs
T0900 == <<9, 0>>
T090030 == <<9, 0, 30>>
T0901 == <<9, 1>>
T2500 == <<25, 0>>
T9 == <<9>>

OverridePhone == <<"1", "5">>

Body(en, dbv, npd, times, ovr) ==
    [sms_enabled |-> en, days_before_vacation |-> dbv,
     notifications_per_day |-> npd, notification_times |-> times,
     phone_number_override |-> ovr]

\* JSON bodies of PUT /api/notification-preferences drawn by the model
UpdateBodies ==
    { Body(TRUE, 2, 1, <<T0900>>, None),
      Body(TRUE, 0, 2, <<T090030, T0901>>, OverridePhone),
      Body(FALSE, 2, 1, <<T0901>>, None),
      Body(TRUE, 2, 1, <<>>, <<>>),
      Body(TRUE, 31, 1, <<T0900>>, None),
      Body(TRUE, -1, 1, <<T0900>>, None),
      Body(TRUE, 2, 0, <<T0901>>, None),
      Body(TRUE, 2, 11, <<T0901>>, None),
      Body(TRUE, 2, 1, <<T0900, T2500>>, None),
      Body(FALSE, 0, 2, <<T9>>, None) }

\* ------------------------------------------------------------- variables
VARIABLES
    started,     \* the module-level startup code has run
    twilio,      \* twilio_client and TWILIO_PHONE_NUMBER are configured
    today,       \* CURRENT_DATE / datetime.now().date()
    prefs,       \* notification_preferences: supervisor_id -> row
    vacations,   \* vacation_requests: id -> row
    history,     \* notification_history, in insertion order
    jobs,        \* the scheduler's job store
    running,     \* job id -> the sweep that job's thread is executing
    sent,        \* messages the transport accepted
    resp,        \* HTTP status of the last handled request (0: none yet)
    call         \* the last call of a calendar function: arguments, result

vars == <<started, twilio, today, prefs, vacations, history, jobs, running,
          sent, resp, call>>


\* ------------------------------------------------- time-string parsing
\* datetime.strptime(time_str, '%H:%M')
StrptimeHM(f) == Len(f) = 2 /\ f[1] \in 0..23 /\ f[2] \in 0..59

\* datetime.strptime(time_str, '%H:%M:%S'); datetime rejects second > 59
StrptimeHMS(f) ==
    Len(f) = 3 /\ f[1] \in 0..23 /\ f[2] \in 0..59 /\ f[3] \in 0..59

\* the time object the two nested try blocks produce for a parsable string
TimeObject(f) ==
    IF StrptimeHM(f)
    THEN [hour |-> f[1], minute |-> f[2], second |-> 0]
    ELSE [hour |-> f[1], minute |-> f[2], second |-> f[3]]

TimeStringOk(f) == StrptimeHM(f) \/ StrptimeHMS(f)

\* notification_times after "if not notification_times: ['09:00:00']"
DefaultedTimes(times) == IF times = <<>> THEN << <<9, 0, 0>> >> ELSE times

\* "Validate ranges" mutant: the notifications_per_day check is missing
RangesOkNoPerDayCheck(d) ==
    0 <= d.days_before_vacation /\ d.days_before_vacation <= 30

\* "Validate ranges": 0 <= days_before_vacation <= 30 and
\* 1 <= notifications_per_day <= 10
RangesOk(d) ==
    /\ 0 <= d.days_before_vacation /\ d.days_before_vacation <= 30
    /\ 1 <= d.notifications_per_day /\ d.notifications_per_day <= 10

AllTimesOk(times) == \A i \in 1..Len(times) : TimeStringOk(times[i])

\* the row the INSERT ... ON CONFLICT DO UPDATE writes for supervisor s
PrefRow(s, d) ==
    LET times == DefaultedTimes(d.notification_times)
    IN [supervisor_id |-> s,
        sms_enabled |-> d.sms_enabled,
        days_before_vacation |-> d.days_before_vacation,
        notifications_per_day |-> d.notifications_per_day,
        notification_times |-> [i \in 1..Len(times) |-> TimeObject(times[i])],
        phone_number_override |-> d.phone_number_override]

Upsert(store, s, row) ==
    [x \in (DOMAIN store) \cup {s} |-> IF x = s THEN row ELSE store[x]]

\* ------------------------------------------------------ scheduler jobs
\* id=f'vacation_check_{hour:02d}_{minute:02d}'
JobId(h, m) == [name |-> "vacation_check", hh |-> h, mm |-> m]

\* id='vacation_check_default'
DefaultJobId == [name |-> "vacation_check_default", hh |-> 9, mm |-> 0]

Job(id, h, m) == [id |-> id, hour |-> h, minute |-> m]

\* times query mutant: the WHERE sms_enabled = true filter is missing
AllNotificationTimes(store) ==
    UNION { { store[s].notification_times[i] :
                i \in DOMAIN store[s].notification_times } :
            s \in DOMAIN store }

\* SELECT DISTINCT unnest(notification_times) FROM notification_preferences
\* WHERE sms_enabled = true
EnabledNotificationTimes(store) ==
    UNION { { store[s].notification_times[i] :
                i \in DOMAIN store[s].notification_times } :
            s \in { x \in DOMAIN store : store[x].sms_enabled } }

\* scheduler.remove_all_jobs()
RemoveAllJobs(js) == {}

\* scheduler.add_job(..., id=..., replace_existing=True)
AddJob(js, job) == { j \in js : j.id # job.id } \cup {job}

RECURSIVE AddJobsFor(_, _)
\* the for loop over the fetched times, one add_job per row
AddJobsFor(js, times) ==
    IF times = {} THEN js
    ELSE LET t == CHOOSE x \in times : TRUE
         IN AddJobsFor(AddJob(js, Job(JobId(t.hour, t.minute),
                                      t.hour, t.minute)),
                       times \ {t})

\* schedule_notification_jobs(): the job store it leaves behind.  The jobs
\* are removed first; a failed connection returns with none registered.
ScheduledJobs(js, store, connOk) ==
    LET cleared == RemoveAllJobs(js)
    IN IF ~connOk THEN cleared
       ELSE LET times == EnabledNotificationTimes(store)
            IN IF times = {}
               THEN AddJob(cleared, Job(DefaultJobId, 9, 0))
               ELSE AddJobsFor(cleared, times)


\* --------------------------------------------------------- SMS sending
StartsWith(p, c) == Len(p) > 0 /\ p[1] = c

\* .replace('-', '').replace('(', '').replace(')', '').replace(' ', '')
StripPunctuation(p) ==
    LET Keep(c) == c \notin {"-", "(", ")", " "} IN SelectSeq(p, Keep)

\* formatting mutant: the punctuation is stripped from a number that starts
\* with "1" as well
FormatPhoneStripsAlways(p) ==
    IF StartsWith(p, "+") THEN p
    ELSE IF StartsWith(p, "1") THEN <<"+">> \o StripPunctuation(p)
    ELSE <<"+", "1">> \o StripPunctuation(p)

\* "Format phone number" in send_sms_notification
FormatPhone(p) ==
    IF StartsWith(p, "+") THEN p
    ELSE IF StartsWith(p, "1") THEN <<"+">> \o p
    ELSE <<"+", "1">> \o StripPunctuation(p)

\* the row log_notification_history inserts; sent_at = datetime.now() for
\* 'sent' and 'failed', NULL (-1) otherwise
HistoryRow(sup, vac, phone, text, status, detail) ==
    [supervisor_id |-> sup, vacation_request_id |-> vac,
     phone_number |-> phone, message_content |-> text,
     status |-> status, twilio |-> detail,
     sent_at |-> IF status \in {"sent", "failed"} THEN today ELSE -1]

\* log_notification_history(): a failed connection or insert is only logged
LogNotificationHistory(h, row, logOk) == IF logOk THEN Append(h, row) ELSE h

\* send_sms_notification(phone_number, message_text, supervisor_id,
\* vacation_request_id): its return value and the stores it leaves behind.
\* supervisor_id / vacation_request_id 0 stand for the default None.
SendSmsNotification(phone, text, sup, vac, transportOk, logOk) ==
    IF ~twilio
    THEN [success |-> FALSE, result |-> "not configured",
          history |-> history, sent |-> sent]
    ELSE LET to == FormatPhone(phone)
             logged == sup # 0 /\ vac # 0
         IN IF transportOk
            THEN [success |-> TRUE, result |-> "sid",
                  sent |-> Append(sent, [to |-> to, body |-> text]),
                  history |->
                    IF logged
                    THEN LogNotificationHistory(history,
                           HistoryRow(sup, vac, to, text, "sent", "sid"),
                           logOk)
                    ELSE history]
            ELSE [success |-> FALSE, result |-> "error",
                  sent |-> sent,
                  history |->
                    IF logged
                    THEN LogNotificationHistory(history,
                           HistoryRow(sup, vac, to, text, "failed", "error"),
                           logOk)
                    ELSE history]

\* parameters of def send_sms_notification
SendSmsParameters ==
    {"phone_number", "message_text", "supervisor_id", "vacation_request_id"}

\* parameters of send_sms_notification without a default
SendSmsRequired == {"phone_number", "message_text"}

\* keyword arguments of the call in check_upcoming_vacations
SweepCallKeywords ==
    {"phone_number", "message", "supervisor_id", "vacation_request_id"}

\* Python binds a keyword call iff every keyword names a parameter and every
\* parameter without a default is given; otherwise the call raises TypeError
\* before the body runs
CallBinds(keywords) ==
    keywords \subseteq SendSmsParameters /\ SendSmsRequired \subseteq keywords

\* ------------------------------------------------------------ the calendar
\* datetime(year, month, day)
Datetime(y, m, d) == [year |-> y, month |-> m, day |-> d]

IsLeap(y) == (y % 4 = 0 /\ y % 100 # 0) \/ y % 400 = 0

DaysInMonth(y, m) ==
    IF m = 2 THEN (IF IsLeap(y) THEN 29 ELSE 28)
    ELSE IF m \in {4, 6, 9, 11} THEN 30 ELSE 31

\* days before January 1 of year y in the proleptic Gregorian calendar
DaysBeforeYear(y) ==
    LET p == y - 1 IN p * 365 + (p \div 4) - (p \div 100) + (p \div 400)

DaysBeforeMonth(y, m) ==
    <<0, 31, 59, 90, 120, 151, 181, 212, 243, 273, 304, 334>>[m]
        + (IF m > 2 /\ IsLeap(y) THEN 1 ELSE 0)

\* datetime.toordinal(): January 1 of year 1 is day 1
ToOrdinal(dt) ==
    DaysBeforeYear(dt.year) + DaysBeforeMonth(dt.year, dt.month) + dt.day

FromOrdinal(n) ==
    LET y == CHOOSE yy \in (n \div 366)..((n \div 365) + 1) :
                 DaysBeforeYear(yy) < n /\ n <= DaysBeforeYear(yy + 1)
        r == n - DaysBeforeYear(y)
        m == CHOOSE mm \in 1..12 :
                 /\ DaysBeforeMonth(y, mm) < r
                 /\ r <= DaysBeforeMonth(y, mm) + DaysInMonth(y, mm)
    IN  Datetime(y, m, r - DaysBeforeMonth(y, m))

\* datetime.weekday(): Monday is 0, Sunday is 6
Weekday(dt) == (ToOrdinal(dt) + 6) % 7

\* dt + timedelta(days=n)
PlusDays(dt, n) == FromOrdinal(ToOrdinal(dt) + n)

\* dt1 <= dt2
NotAfter(dt1, dt2) == ToOrdinal(dt1) <= ToOrdinal(dt2)

\* days from the 1st of a month to the Monday the code takes as the first:
\* a 1st that is itself a Monday is moved a week on
DaysToMonday(first) ==
    LET days_to_monday == (7 - Weekday(first)) % 7
    IN  IF days_to_monday = 0 THEN 7 ELSE days_to_monday

MlkDay(year) ==
    LET mlk_day == Datetime(year, 1, 1)
    IN  PlusDays(mlk_day, DaysToMonday(mlk_day) + 14)

PresidentsDay(year) ==
    LET presidents_day == Datetime(year, 2, 1)
    IN  PlusDays(presidents_day, DaysToMonday(presidents_day) + 14)

MemorialDay(year) ==
    LET memorial_day == Datetime(year, 5, 31)
        days_to_monday == (Weekday(memorial_day) + 1) % 7
    IN  PlusDays(memorial_day, 0 - days_to_monday)

LaborDay(year) ==
    LET labor_day == Datetime(year, 9, 1)
    IN  PlusDays(labor_day, DaysToMonday(labor_day))

Thanksgiving(year) ==
    LET thanksgiving == Datetime(year, 11, 1)
        days_to_thursday == (3 - Weekday(thanksgiving)) % 7
    IN  PlusDays(thanksgiving, days_to_thursday + 21)

\* day_after_thanksgiving = thanksgiving + timedelta(days=1)
DayAfterThanksgiving(year) ==
    LET thanksgiving == Thanksgiving(year)
    IN  FromOrdinal(ToOrdinal(thanksgiving) + 1)

\* get_us_holidays without the day after Thanksgiving
GetUsHolidaysNoDayAfter(year) ==
    << Datetime(year, 1, 1), MlkDay(year), PresidentsDay(year),
       MemorialDay(year), Datetime(year, 7, 4), LaborDay(year),
       Thanksgiving(year), Datetime(year, 12, 24), Datetime(year, 12, 25) >>

\* get_us_holidays without Christmas Eve
GetUsHolidaysNoChristmasEve(year) ==
    << Datetime(year, 1, 1), MlkDay(year), PresidentsDay(year),
       MemorialDay(year), Datetime(year, 7, 4), LaborDay(year),
       Thanksgiving(year), DayAfterThanksgiving(year),
       Datetime(year, 12, 25) >>

\* get_us_holidays(year): the list, in the order it is appended
GetUsHolidays(year) ==
    << Datetime(year, 1, 1), MlkDay(year), PresidentsDay(year),
       MemorialDay(year), Datetime(year, 7, 4), LaborDay(year),
       Thanksgiving(year), DayAfterThanksgiving(year),
       Datetime(year, 12, 24), Datetime(year, 12, 25) >>

\* is_holiday comparing the day of the month only
IsHolidayDayOnly(date) ==
    LET holidays == GetUsHolidays(date.year)
    IN  \E i \in 1..Len(holidays) : holidays[i].day = date.day

IsHoliday(date) ==
    LET holidays == GetUsHolidays(date.year)
    IN  \E i \in 1..Len(holidays) :
            /\ holidays[i].year = date.year
            /\ holidays[i].month = date.month
            /\ holidays[i].day = date.day

\* is_business_day taking Saturday for a working day
IsBusinessDaySundayOnly(date) ==
    IF Weekday(date) > 5 THEN FALSE
    ELSE IF IsHoliday(date) THEN FALSE
    ELSE TRUE

IsBusinessDay(date) ==
    IF Weekday(date) >= 5 THEN FALSE
    ELSE IF IsHoliday(date) THEN FALSE
    ELSE TRUE

RECURSIVE BusinessDaysLoop(_, _, _)
\* the while loop of calculate_business_days
BusinessDaysLoop(current_date, end_date, business_days) ==
    IF NotAfter(current_date, end_date)
    THEN BusinessDaysLoop(PlusDays(current_date, 1), end_date,
                          IF IsBusinessDay(current_date)
                          THEN business_days + 1 ELSE business_days)
    ELSE business_days

\* calculate_business_days leaving the end date out
CalculateBusinessDaysExclusive(start_date, end_date) ==
    BusinessDaysLoop(start_date, PlusDays(end_date, 0 - 1), 0)

CalculateBusinessDays(start_date, end_date) ==
    BusinessDaysLoop(start_date, end_date, 0)

RECURSIVE NextBusinessDayLoop(_)
\* the while loop of get_next_business_day_backend
NextBusinessDayLoop(next_day) ==
    IF ~IsBusinessDay(next_day)
    THEN NextBusinessDayLoop(PlusDays(next_day, 1))
    ELSE next_day

\* get_next_business_day_backend starting its search at the date itself
GetNextBusinessDayBackendFromSame(date) == NextBusinessDayLoop(date)

GetNextBusinessDayBackend(date) == NextBusinessDayLoop(PlusDays(date, 1))

\* ------------------------------------------------------------ the sweep
\* the calendar date of the sweep's day 0, a Monday
DayZero == Datetime(2024, 7, 1)

\* vacation_requests.end_date of each request, as a day number
VacationEnd == [v \in Vacs |-> VacationStart[v] + 1]

\* the calendar date of a day number of the sweep
DateOfDay(n) == PlusDays(DayZero, n)

\* vacation_requests.total_hours of each request, as its creation computed
\* it
VacationHours ==
    [v \in Vacs |->
        8 * CalculateBusinessDays(DateOfDay(VacationStart[v]),
                                  DateOfDay(VacationEnd[v]))]

\* d.strftime('%m/%d/%Y')
StrftimeMDY(dt) == <<dt.month, dt.day, dt.year>>

\* the parts of the text that do not depend on days_until; number is the
\* N of "in N days", empty when the phrase has none
MessageParts(row, heading, phrase, number) ==
    [heading |-> heading,
     employee_name |-> <<row.employee_first_name, row.employee_last_name>>,
     phrase |-> phrase,
     number |-> number,
     start_date_str |-> StrftimeMDY(DateOfDay(row.start_date)),
     end_date_str |-> StrftimeMDY(DateOfDay(row.end_date)),
     total_hours |-> row.total_hours,
     signature |-> "- Don Miguel Vacation Manager"]

\* message mutant: the branch for one day is missing
CreateVacationNotificationMessageNoTomorrow(row, days_until) ==
    IF days_until = 0
    THEN MessageParts(row, "VACATION ALERT:", "starts vacation TODAY", <<>>)
    ELSE MessageParts(row, "VACATION REMINDER:", "starts vacation in N days",
                      <<days_until>>)

\* create_vacation_notification_message(vacation, days_until)
CreateVacationNotificationMessage(row, days_until) ==
    IF days_until = 0
    THEN MessageParts(row, "VACATION ALERT:", "starts vacation TODAY", <<>>)
    ELSE IF days_until = 1
    THEN MessageParts(row, "VACATION REMINDER:", "starts vacation TOMORROW",
                      <<>>)
    ELSE MessageParts(row, "VACATION REMINDER:", "starts vacation in N days",
                      <<days_until>>)

\* WHERE clause mutant: the vr.status = 'Approved' condition is missing
QueryMatchesAnyStatus(p, vr, d) ==
    p.sms_enabled /\ vr.start_date > d /\ vr.start_date <= d + 30

\* WHERE np.sms_enabled = true AND vr.status = 'Approved'
\* AND vr.start_date > CURRENT_DATE
\* AND vr.start_date <= CURRENT_DATE + INTERVAL '30 days'
QueryMatches(p, vr, d) ==
    /\ p.sms_enabled
    /\ vr.status = "Approved"
    /\ vr.start_date > d
    /\ vr.start_date <= d + 30

\* one row of the sweep's join; status is the request's status when the
\* query ran (the query filters on it without selecting it)
SweepRow(p, v) ==
    [supervisor_id |-> p.supervisor_id,
     sms_enabled |-> p.sms_enabled,
     days_before_vacation |-> p.days_before_vacation,
     notifications_per_day |-> p.notifications_per_day,
     phone_number_override |-> p.phone_number_override,
     supervisor_phone |-> SupervisorPhone[p.supervisor_id],
     vacation_request_id |-> v,
     start_date |-> vacations[v].start_date,
     end_date |-> VacationEnd[v],
     total_hours |-> VacationHours[v],
     employee_first_name |-> "Ana",
     employee_last_name |-> "Diaz",
     status |-> vacations[v].status]

\* query mutant: notification_preferences is joined without its ON
\* condition, every request comes back once per preference row
UpcomingVacationsCrossJoin ==
    { [SweepRow(prefs[s], v) EXCEPT
          !.supervisor_id = vacations[v].supervisor_id] :
        s \in DOMAIN prefs,
        v \in { x \in Vacs :
                  /\ vacations[x].supervisor_id \in DOMAIN prefs
                  /\ QueryMatches(prefs[vacations[x].supervisor_id],
                                  vacations[x], today) } }

\* cursor.fetchall() of the sweep's query
UpcomingVacations ==
    { SweepRow(prefs[vacations[v].supervisor_id], v) :
        v \in { x \in Vacs :
                  /\ vacations[x].supervisor_id \in DOMAIN prefs
                  /\ QueryMatches(prefs[vacations[x].supervisor_id],
                                  vacations[x], today) } }

\* days_until_vacation = (start_date - datetime.now().date()).days
DaysUntilVacation(row) == row.start_date - today

\* window check mutant: the upper limit is off by one
InWindowOffByOne(days_until, dbv) == days_until <= dbv + 1 /\ days_until >= 0

\* days_until_vacation <= days_before_vacation and days_until_vacation >= 0
InWindow(days_until, dbv) == days_until <= dbv /\ days_until >= 0

\* SELECT COUNT(*) FROM notification_history WHERE supervisor_id = %s AND
\* vacation_request_id = %s AND DATE(sent_at) = CURRENT_DATE
\* AND status = 'sent'
NotificationsSentToday(sup, vac) ==
    Cardinality({ i \in 1..Len(history) :
                    /\ history[i].supervisor_id = sup
                    /\ history[i].vacation_request_id = vac
                    /\ history[i].sent_at = today
                    /\ history[i].status = "sent" })

\* notifications_sent_today < vacation['notifications_per_day']
UnderCap(count, npd) == count < npd

\* phone resolution mutant: the profile phone is preferred to the override
ResolvePhoneProfileFirst(row) ==
    IF Truthy(row.supervisor_phone) THEN row.supervisor_phone
    ELSE row.phone_number_override

\* phone_number = phone_number_override or supervisor_phone
ResolvePhone(row) ==
    IF Truthy(row.phone_number_override) THEN row.phone_number_override
    ELSE row.supervisor_phone


\* -------------------------------------------------------- initial state
EmptyStore == [x \in {} |-> 0]

\* no calendar function has been called yet
NoCall == [fn |-> "none", returned |-> TRUE]

NoSweeps == [x \in {} |-> 0]

\* the process before its startup code has run: Twilio credentials set, no
\* preference rows yet, two Pending requests of supervisor 1
Init ==
    /\ started = FALSE
    /\ twilio = TRUE
    /\ today = 0
    /\ prefs = EmptyStore
    /\ vacations = [v \in Vacs |->
                      [supervisor_id |-> VacationSupervisor[v],
                       start_date |-> VacationStart[v],
                       status |-> "Pending"]]
    /\ history = <<>>
    /\ jobs = {}
    /\ running = NoSweeps
    /\ sent = <<>>
    /\ resp = 0
    /\ call = NoCall

\* --------------------------------------------------------------- actions
\* "Initialize notification jobs on startup"
Startup(connOk) ==
    /\ ~started
    /\ started' = TRUE
    /\ jobs' = ScheduledJobs(jobs, prefs, connOk)
    /\ UNCHANGED <<twilio, today, prefs, vacations, history, running, sent,
                   resp>>
    /\ UNCHANGED call

\* the HTTP status update_notification_preferences returns to the
\* supervisor with id s
UpdateStatus(s, d, connOk) ==
    IF ~connOk THEN 500
    ELSE IF s \notin Sups THEN 404
    ELSE IF ~RangesOk(d) THEN 400
    ELSE IF ~AllTimesOk(DefaultedTimes(d.notification_times)) THEN 400
    ELSE 200

\* PUT /api/notification-preferences
UpdateNotificationPreferences(s, d, connOk, schedOk) ==
    /\ started
    /\ IF UpdateStatus(s, d, connOk) = 200
       THEN /\ prefs' = Upsert(prefs, s, PrefRow(s, d))
            /\ jobs' = ScheduledJobs(jobs, prefs', schedOk)
       ELSE UNCHANGED <<prefs, jobs>>
    /\ resp' = UpdateStatus(s, d, connOk)
    /\ UNCHANGED <<started, twilio, today, vacations, history, running, sent>>
    /\ UNCHANGED call

\* the HTTP status of approve / deny
SetStatusStatus(s, v, connOk) ==
    IF ~connOk THEN 500
    ELSE IF vacations[v].supervisor_id # s THEN 404
    ELSE 200

\* UPDATE vacation_requests SET status = ... WHERE id = v AND
\* supervisor_id = (the caller's id)
SetStatus(s, v, status, connOk) ==
    /\ started
    /\ IF SetStatusStatus(s, v, connOk) = 200
       THEN vacations' = [vacations EXCEPT ![v].status = status]
       ELSE UNCHANGED vacations
    /\ resp' = SetStatusStatus(s, v, connOk)
    /\ UNCHANGED <<started, twilio, today, prefs, history, jobs, running,
                   sent>>
    /\ UNCHANGED call

\* PUT /api/vacation-requests/<id>/approve
ApproveVacationRequest(s, v, connOk) == SetStatus(s, v, "Approved", connOk)

\* PUT /api/vacation-requests/<id>/deny
DenyVacationRequest(s, v, connOk) == SetStatus(s, v, "Denied", connOk)

Finish(id) == [x \in (DOMAIN running) \ {id} |-> running[x]]

Put(id, sw) ==
    [x \in (DOMAIN running) \cup {id} |-> IF x = id THEN sw ELSE running[x]]

\* a job's trigger fires and the executor runs check_upcoming_vacations up
\* to the end of fetchall(); a job whose previous run is still executing is
\* not started again (max_instances is 1 per job)
TimerFires(id, connOk) ==
    /\ \E j \in jobs : j.id = id
    /\ id \notin DOMAIN running
    /\ IF connOk /\ UpcomingVacations # {}
       THEN running' = Put(id, [rows |-> UpcomingVacations, cur |-> {},
                                count |-> 0])
       ELSE UNCHANGED running
    /\ UNCHANGED <<started, twilio, today, prefs, vacations, history, jobs,
                   sent, resp>>
    /\ UNCHANGED call

\* the next loop iteration up to the count query
SweepCheck(id) ==
    /\ id \in DOMAIN running
    /\ running[id].cur = {}
    /\ \E row \in running[id].rows :
         LET rest == running[id].rows \ {row}
         IN IF InWindow(DaysUntilVacation(row), row.days_before_vacation)
            THEN running' = Put(id,
                   [rows |-> rest, cur |-> {row},
                    count |-> NotificationsSentToday(row.supervisor_id,
                                                     row.vacation_request_id)])
            ELSE IF rest = {}
            THEN running' = Finish(id)
            ELSE running' = Put(id, [rows |-> rest, cur |-> {}, count |-> 0])
    /\ UNCHANGED <<started, twilio, today, prefs, vacations, history, jobs,
                   sent, resp>>
    /\ UNCHANGED call

\* the sweep reaches the call of send_sms_notification for its current row
MakesCall(sw) ==
    \E row \in sw.cur :
        /\ UnderCap(sw.count, row.notifications_per_day)
        /\ Truthy(ResolvePhone(row))

\* loop mutant: an exception raised for one row ends the sweep
SweepSendAbortOnError(id, transportOk, logOk) ==
    /\ id \in DOMAIN running
    /\ \E row \in running[id].cur :
         /\ IF MakesCall(running[id]) /\ CallBinds(SweepCallKeywords)
            THEN LET r == SendSmsNotification(ResolvePhone(row),
                            CreateVacationNotificationMessage(row,
                                DaysUntilVacation(row)),
                            row.supervisor_id, row.vacation_request_id,
                            transportOk, logOk)
                 IN history' = r.history /\ sent' = r.sent
            ELSE UNCHANGED <<history, sent>>
         /\ IF running[id].rows = {}
               \/ (MakesCall(running[id]) /\ ~CallBinds(SweepCallKeywords))
            THEN running' = Finish(id)
            ELSE running' = Put(id, [rows |-> running[id].rows, cur |-> {},
                                     count |-> 0])
    /\ UNCHANGED <<started, twilio, today, prefs, vacations, jobs, resp>>
    /\ UNCHANGED call

\* the rest of the loop iteration: cap check, phone, message, send call.
\* A TypeError of the call is caught by the loop's except and the loop
\* continues.
SweepSend(id, transportOk, logOk) ==
    /\ id \in DOMAIN running
    /\ \E row \in running[id].cur :
         /\ IF MakesCall(running[id]) /\ CallBinds(SweepCallKeywords)
            THEN LET r == SendSmsNotification(ResolvePhone(row),
                            CreateVacationNotificationMessage(row,
                                DaysUntilVacation(row)),
                            row.supervisor_id, row.vacation_request_id,
                            transportOk, logOk)
                 IN history' = r.history /\ sent' = r.sent
            ELSE UNCHANGED <<history, sent>>
         /\ IF running[id].rows = {}
            THEN running' = Finish(id)
            ELSE running' = Put(id, [rows |-> running[id].rows, cur |-> {},
                                     count |-> 0])
    /\ UNCHANGED <<started, twilio, today, prefs, vacations, jobs, resp>>
    /\ UNCHANGED call

\* midnight; no notification time of the model is near midnight, so no
\* sweep is running then
DayTick ==
    /\ today < MaxDay
    /\ DOMAIN running = {}
    /\ today' = today + 1
    /\ UNCHANGED <<started, twilio, prefs, vacations, history, jobs, running,
                   sent, resp>>
    /\ UNCHANGED call

Callers == Sups

JobIds == {JobId(9, 0), JobId(9, 1), DefaultJobId}

Next ==
    \/ \E c \in BOOLEAN : Startup(c)
    \/ \E s \in Callers, d \in UpdateBodies, c \in BOOLEAN, k \in BOOLEAN :
         UpdateNotificationPreferences(s, d, c, k)
    \/ \E s \in Callers, v \in Vacs, c \in BOOLEAN :
         ApproveVacationRequest(s, v, c)
    \/ \E s \in Callers, v \in Vacs, c \in BOOLEAN :
         DenyVacationRequest(s, v, c)
    \/ \E id \in JobIds, c \in BOOLEAN : TimerFires(id, c)
    \/ \E id \in JobIds : SweepCheck(id)
    \/ \E id \in JobIds, t \in BOOLEAN, l \in BOOLEAN : SweepSend(id, t, l)
    \/ DayTick

Spec == Init /\ [][Next]_vars

\* the scheduler on its own: startup and preference updates, the only
\* operations that read or write the preference store and the job store
NextSched ==
    \/ \E c \in BOOLEAN : Startup(c)
    \/ \E s \in Callers, d \in UpdateBodies, c \in BOOLEAN, k \in BOOLEAN :
         UpdateNotificationPreferences(s, d, c, k)

SpecSched == Init /\ [][NextSched]_vars


\* ------------------------------------------------- the calendar functions
\* years get_us_holidays is called with: every weekday of January 1, in leap
\* and in common years
Years == 2000..(2000 + YearSpan)

\* dates the business-day functions are called with
Dates ==
    { dt \in { Datetime(y, m, d) : y \in 2024..(2024 + DateYearSpan),
                                   m \in 1..12, d \in 1..31 } :
          dt.day <= DaysInMonth(dt.year, dt.month) }

\* rows of the sweep's join the message is built from
MessageRows ==
    { SweepRow(PrefRow(vacations[v].supervisor_id,
                       Body(TRUE, 2, 1, <<T0900>>, None)), v) : v \in Vacs }

\* the calls a run may start with: a function and its arguments
PendingCalls ==
    { [fn |-> "get_us_holidays", year |-> y, returned |-> FALSE] :
          y \in Years } \cup
    { [fn |-> "is_business_day", date |-> d, returned |-> FALSE] :
          d \in Dates } \cup
    { [fn |-> "calculate_business_days", start_date |-> d,
       end_date |-> PlusDays(d, k), returned |-> FALSE] :
          d \in Dates, k \in (0 - MaxBack)..MaxSpan } \cup
    { [fn |-> "get_next_business_day_backend", date |-> d,
       returned |-> FALSE] : d \in Dates } \cup
    { [fn |-> "create_vacation_notification_message", vacation |-> row,
       days_until |-> n, returned |-> FALSE] :
          row \in MessageRows, n \in 0..MaxDaysUntil }

InitCal ==
    /\ started = FALSE
    /\ twilio = TRUE
    /\ today = 0
    /\ prefs = EmptyStore
    /\ vacations = [v \in Vacs |->
                      [supervisor_id |-> VacationSupervisor[v],
                       start_date |-> VacationStart[v],
                       status |-> "Pending"]]
    /\ history = <<>>
    /\ jobs = {}
    /\ running = NoSweeps
    /\ sent = <<>>
    /\ resp = 0
    /\ call \in PendingCalls

Returns(result) ==
    [x \in DOMAIN call \cup {"result"} |->
        IF x = "result" THEN result
        ELSE IF x = "returned" THEN TRUE ELSE call[x]]

GetUsHolidaysCall ==
    /\ call.fn = "get_us_holidays" /\ ~call.returned
    /\ call' = Returns(GetUsHolidays(call.year))
    /\ UNCHANGED <<started, twilio, today, prefs, vacations, history, jobs,
                   running, sent, resp>>

IsBusinessDayCall ==
    /\ call.fn = "is_business_day" /\ ~call.returned
    /\ call' = Returns(IsBusinessDay(call.date))
    /\ UNCHANGED <<started, twilio, today, prefs, vacations, history, jobs,
                   running, sent, resp>>

CalculateBusinessDaysCall ==
    /\ call.fn = "calculate_business_days" /\ ~call.returned
    /\ call' = Returns(CalculateBusinessDays(call.start_date, call.end_date))
    /\ UNCHANGED <<started, twilio, today, prefs, vacations, history, jobs,
                   running, sent, resp>>

GetNextBusinessDayBackendCall ==
    /\ call.fn = "get_next_business_day_backend" /\ ~call.returned
    /\ call' = Returns(GetNextBusinessDayBackend(call.date))
    /\ UNCHANGED <<started, twilio, today, prefs, vacations, history, jobs,
                   running, sent, resp>>

CreateVacationNotificationMessageCall ==
    /\ call.fn = "create_vacation_notification_message" /\ ~call.returned
    /\ call' = Returns(CreateVacationNotificationMessage(call.vacation,
                                                         call.days_until))
    /\ UNCHANGED <<started, twilio, today, prefs, vacations, history, jobs,
                   running, sent, resp>>

\* is_business_day tabulated over the days a walk of the model can reach
IsBusinessDayOn ==
    [n \in ToOrdinal(Datetime(2024, 1, 1))
             ..ToOrdinal(Datetime(2025 + DateYearSpan, 1, 31)) |->
        IsBusinessDay(FromOrdinal(n))]

\* loop mutant: the day is not advanced
NextDayNotAdvanced(next_day) == next_day

\* next_day += timedelta(days=1)
NextDay(next_day) == PlusDays(next_day, 1)

\* get_next_business_day_backend step by step: one iteration of its loop
NextBusinessDayLoopStep ==
    /\ call.fn = "next_business_day_loop" /\ ~call.returned
    /\ ~IsBusinessDayOn[ToOrdinal(call.next_day)]
    /\ call' = [call EXCEPT !.next_day = NextDay(call.next_day)]
    /\ UNCHANGED <<started, twilio, today, prefs, vacations, history, jobs,
                   running, sent, resp>>

\* the loop condition fails: return next_day
NextBusinessDayLoopReturn ==
    /\ call.fn = "next_business_day_loop" /\ ~call.returned
    /\ IsBusinessDayOn[ToOrdinal(call.next_day)]
    /\ call' = Returns(call.next_day)
    /\ UNCHANGED <<started, twilio, today, prefs, vacations, history, jobs,
                   running, sent, resp>>

NextCal ==
    \/ CreateVacationNotificationMessageCall
    \/ GetUsHolidaysCall
    \/ IsBusinessDayCall
    \/ CalculateBusinessDaysCall
    \/ GetNextBusinessDayBackendCall

SpecCal == InitCal /\ [][NextCal]_vars

\* get_next_business_day_backend entered with a date: next_day = date + 1
InitWalk ==
    /\ started = FALSE
    /\ twilio = TRUE
    /\ today = 0
    /\ prefs = EmptyStore
    /\ vacations = <<>>
    /\ history = <<>>
    /\ jobs = {}
    /\ running = NoSweeps
    /\ sent = <<>>
    /\ resp = 0
    /\ call \in { [fn |-> "next_business_day_loop", date |-> d,
                    next_day |-> PlusDays(d, 1), returned |-> FALSE] :
                   d \in Dates }

NextWalk ==
    \/ NextBusinessDayLoopStep
    \/ NextBusinessDayLoopReturn

\* a started call keeps running: the interpreter takes the next step
SpecWalk == InitWalk /\ [][NextWalk]_vars /\ WF_vars(NextWalk)

\* ------------------------------------------- creating a vacation request
\* A date string of a request is the sequence of its dash-separated numeric
\* fields ("2024-07-01" is <<2024, 7, 1>>).  The requests table of this
\* handler is a sequence of rows, the id of a row being its index.
Employees == {1, 2}

\* employees.supervisor_id
EmployeeSupervisor == [e \in Employees |-> e]

RequiredFields == {"employee_id", "start_date", "end_date"}

\* datetime.strptime(s, '%Y-%m-%d') returns rather than raising ValueError
StrptimeYMD(f) ==
    /\ Len(f) = 3
    /\ f[1] \in 1..9999
    /\ f[2] \in 1..12
    /\ f[3] \in 1..DaysInMonth(f[1], f[2])

\* the datetime strptime returns
ParseYMD(f) == Datetime(f[1], f[2], f[3])

\* dt.strftime('%Y-%m-%d')
StrftimeYMD(dt) == <<dt.year, dt.month, dt.day>>

\* the date pairs requests are made with
DatePairs ==
    { << <<2024, 7, 1>>, <<2024, 7, 5>> >>,
      << <<2024, 12, 23>>, <<2024, 12, 26>> >>,
      << <<2024, 12, 31>>, <<2024, 12, 31>> >>,
      << <<2024, 7, 6>>, <<2024, 7, 7>> >>,
      << <<2024, 11, 27>>, <<2024, 11, 29>> >>,
      << <<2024, 7, 5>>, <<2024, 7, 1>> >>,
      << <<2024, 2, 30>>, <<2024, 3, 1>> >>,
      << <<2024, 7, 1>>, <<2024, 7>> >> }

CreateBodies ==
    { [employee_id |-> e, start_date |-> p[1], end_date |-> p[2]] :
          e \in Employees, p \in DatePairs } \cup
    { [employee_id |-> 1, start_date |-> <<2024, 7, 1>>] }

\* the row inserted, its return date computed from the start date
VacationRequestRowReturnFromStart(s, data) ==
    LET start_date == ParseYMD(data.start_date)
        end_date == ParseYMD(data.end_date)
        business_days == CalculateBusinessDays(start_date, end_date)
        total_hours == business_days * 8
        return_date == GetNextBusinessDayBackend(start_date)
    IN  [employee_id |-> data.employee_id,
         supervisor_id |-> s,
         start_date |-> data.start_date,
         end_date |-> data.end_date,
         return_date |-> StrftimeYMD(return_date),
         total_hours |-> total_hours,
         status |-> "Pending"]

\* the row inserted by an accepted request
VacationRequestRow(s, data) ==
    LET start_date == ParseYMD(data.start_date)
        end_date == ParseYMD(data.end_date)
        business_days == CalculateBusinessDays(start_date, end_date)
        total_hours == business_days * 8
        return_date == GetNextBusinessDayBackend(end_date)
    IN  [employee_id |-> data.employee_id,
         supervisor_id |-> s,
         start_date |-> data.start_date,
         end_date |-> data.end_date,
         return_date |-> StrftimeYMD(return_date),
         total_hours |-> total_hours,
         status |-> "Pending"]

\* the HTTP status of POST /api/vacation-requests
CreateStatus(s, data, connOk, insertOk) ==
    IF ~(RequiredFields \subseteq DOMAIN data) THEN 400
    ELSE IF ~connOk THEN 500
    ELSE IF s \notin Sups THEN 404
    ELSE IF data.employee_id \notin Employees
            \/ EmployeeSupervisor[data.employee_id] # s THEN 404
    ELSE IF ~StrptimeYMD(data.start_date) \/ ~StrptimeYMD(data.end_date)
         THEN 400
    ELSE IF ToOrdinal(ParseYMD(data.end_date))
                < ToOrdinal(ParseYMD(data.start_date)) THEN 400
    ELSE IF ~insertOk THEN 500
    ELSE 201

\* POST /api/vacation-requests
CreateVacationRequest(s, data, connOk, insertOk) ==
    /\ Len(vacations) < MaxRequests
    /\ resp' = CreateStatus(s, data, connOk, insertOk)
    /\ IF CreateStatus(s, data, connOk, insertOk) = 201
       THEN vacations' = Append(vacations, VacationRequestRow(s, data))
       ELSE UNCHANGED vacations
    /\ UNCHANGED <<started, twilio, today, prefs, history, jobs, running,
                   sent, call>>

\* the process with an empty requests table
InitCreate ==
    /\ started = FALSE
    /\ twilio = TRUE
    /\ today = 0
    /\ prefs = EmptyStore
    /\ vacations = <<>>
    /\ history = <<>>
    /\ jobs = {}
    /\ running = NoSweeps
    /\ sent = <<>>
    /\ resp = 0
    /\ call = NoCall

NextCreate ==
    \E s \in Callers \cup {0}, data \in CreateBodies,
       connOk \in BOOLEAN, insertOk \in BOOLEAN :
        CreateVacationRequest(s, data, connOk, insertOk)

SpecCreate == InitCreate /\ [][NextCreate]_vars

\* ------------------------------------------------- the sweep on its own
\* phone_number_override as a stored row can hold it: NULL, the empty
\* string, a number
Overrides == {None, <<>>, OverridePhone}

\* the running process some days before two approved vacations, each of
\* either supervisor; both supervisors have an enabled preference row with
\* a window of two or three days, and supervisor 2 has no profile phone
InitSweep ==
    /\ started = TRUE
    /\ twilio = TRUE
    /\ today = 0
    /\ prefs \in { [s \in Sups |->
                      PrefRow(s, Body(TRUE, dbv, 1, <<T0900>>, ovr[s]))] :
                   ovr \in [Sups -> Overrides], dbv \in {2, 3} }
    /\ vacations \in { [v \in Vacs |->
                          [supervisor_id |-> owner[v],
                           start_date |-> VacationStart[v],
                           status |-> "Approved"]] :
                       owner \in [Vacs -> Sups] }
    /\ history = <<>>
    /\ jobs = ScheduledJobs({}, prefs, TRUE)
    /\ running = NoSweeps
    /\ sent = <<>>
    /\ resp = 0
    /\ call = NoCall

NextSweep ==
    \/ \E id \in JobIds, c \in BOOLEAN : TimerFires(id, c)
    \/ \E id \in JobIds : SweepCheck(id)
    \/ \E id \in JobIds, t \in BOOLEAN, l \in BOOLEAN : SweepSend(id, t, l)
    \/ DayTick

SpecSweep == InitSweep /\ [][NextSweep]_vars

\* ------------------------------------------- status changes and sweeps
\* the running process with request 1 approved and request 2 pending or
\* approved; supervisors approve and deny while the 09:00 timer fires
InitStatus ==
    /\ started = TRUE
    /\ twilio = TRUE
    /\ today = 0
    /\ prefs \in { [s \in Sups |->
                      PrefRow(s, Body(TRUE, 3, 1, <<T0900>>, ovr[s]))] :
                   ovr \in [Sups -> {None, OverridePhone}] }
    /\ vacations \in { [v \in Vacs |->
                          [supervisor_id |-> owner[v],
                           start_date |-> VacationStart[v],
                           status |-> IF v = 1 THEN "Approved" ELSE st]] :
                       owner \in [Vacs -> Sups],
                       st \in {"Pending", "Approved"} }
    /\ history = <<>>
    /\ jobs = ScheduledJobs({}, prefs, TRUE)
    /\ running = NoSweeps
    /\ sent = <<>>
    /\ resp = 0
    /\ call = NoCall

NextStatus ==
    \/ \E s \in Callers, v \in Vacs, c \in BOOLEAN :
         ApproveVacationRequest(s, v, c)
    \/ \E s \in Callers, v \in Vacs, c \in BOOLEAN :
         DenyVacationRequest(s, v, c)
    \/ \E id \in JobIds, c \in BOOLEAN : TimerFires(id, c)
    \/ \E id \in JobIds : SweepCheck(id)
    \/ \E id \in JobIds, t \in BOOLEAN, l \in BOOLEAN : SweepSend(id, t, l)
    \/ DayTick

SpecStatus == InitStatus /\ [][NextStatus]_vars

\* ------------------------------------------------------- the test SMS
\* phone_number of the body of POST /api/test-sms; None: not given
TestPhones ==
    { None, <<>>, <<"+", "1", "5">>, <<"+", "5", "-", "7">>, <<"1", "5">>,
      <<"1", "-", "5">>, <<"1", "(", "5", ")">>, <<"5", "-", "7">>,
      <<"(", "5", ")", " ", "7">>, <<"7">> }

\* phone_number = data.get('phone_number'), else supervisor['phone_number']
TestPhone(s, phone) == IF Truthy(phone) THEN phone ELSE SupervisorPhone[s]

\* the HTTP status of POST /api/test-sms
TestSmsStatus(s, phone, connOk, transportOk) ==
    IF ~connOk THEN 500
    ELSE IF s \notin Sups THEN 404
    ELSE IF ~Truthy(TestPhone(s, phone)) THEN 400
    ELSE IF SendSmsNotification(TestPhone(s, phone), "test", 0, 0,
                                transportOk, TRUE).success
    THEN 200
    ELSE 500

\* POST /api/test-sms: send_sms_notification(phone_number, test_message),
\* without supervisor or request id, so nothing is logged
TestSmsNotification(s, phone, connOk, transportOk) ==
    /\ Len(sent) < MaxSent
    /\ resp' = TestSmsStatus(s, phone, connOk, transportOk)
    /\ IF connOk /\ s \in Sups /\ Truthy(TestPhone(s, phone))
       THEN LET r == SendSmsNotification(TestPhone(s, phone), "test", 0, 0,
                                         transportOk, TRUE)
            IN  sent' = r.sent /\ history' = r.history
       ELSE UNCHANGED <<sent, history>>
    /\ UNCHANGED <<started, twilio, today, prefs, vacations, jobs, running,
                   call>>

NextSend ==
    \E s \in Callers \cup {0}, phone \in TestPhones,
       connOk \in BOOLEAN, transportOk \in BOOLEAN :
        TestSmsNotification(s, phone, connOk, transportOk)

SpecSend == Init /\ [][NextSend]_vars

\* ---------------------------------------------------------------- claims
\* a sweep is at the point where it calls send_sms_notification for `row`
AtSendCall(id, row) ==
    /\ id \in DOMAIN running
    /\ row \in running[id].cur
    /\ MakesCall(running[id])

LastRow(h) == h[Len(h)]

\* C2: with preference {days_before_vacation: 2, notifications_per_day: 1},
\* a phone, a working transport and an approved vacation starting in exactly
\* 2 days with no 'sent' row today, the sweep's send step sends exactly one
\* SMS and appends exactly one 'sent' history row (which is what makes a
\* second sweep of the day send nothing).
C2_FirstSweepSendsOne ==
    [][\A id \in JobIds :
         \A row \in (IF id \in DOMAIN running THEN running[id].cur ELSE {}) :
           ( /\ AtSendCall(id, row)
             /\ twilio
             /\ row.days_before_vacation = 2
             /\ row.notifications_per_day = 1
             /\ DaysUntilVacation(row) = 2
             /\ NotificationsSentToday(row.supervisor_id,
                                       row.vacation_request_id) = 0
             /\ SweepSend(id, TRUE, TRUE) )
           => ( /\ Len(sent') = Len(sent) + 1
                /\ Len(history') = Len(history) + 1
                /\ LastRow(history').status = "sent"
                /\ NotificationsSentToday(row.supervisor_id,
                                          row.vacation_request_id)' = 1 )
      ]_vars

\* C3: every send attempt of the sweep appends exactly one history row,
\* 'sent' when the transport accepted the message and 'failed' when it did
\* not, with sent_at set to the attempt's day.
C3_AttemptAlwaysLogged ==
    [][\A id \in JobIds, t \in BOOLEAN :
         \A row \in (IF id \in DOMAIN running THEN running[id].cur ELSE {}) :
           (AtSendCall(id, row) /\ SweepSend(id, t, TRUE))
           => ( /\ Len(history') = Len(history) + 1
                /\ LastRow(history').status \in {"sent", "failed"}
                /\ (t /\ twilio => LastRow(history').status = "sent")
                /\ LastRow(history').sent_at = today
                /\ LastRow(history').vacation_request_id
                     = row.vacation_request_id )
      ]_vars

\* C4: no two executions of the sweep are ever in progress at the same time.
C4_SweepsNeverOverlap == Cardinality(DOMAIN running) <= 1

\* C6: every send call a sweep makes (and so every SMS it could send) is for
\* a request that was Approved and a preference that was enabled when the
\* sweep read them, with 0 <= start_date - today <= days_before_vacation; in
\* particular a request starting in 3 days is never called for under
\* days_before_vacation = 2.
C6_EligibilitySafety ==
    \A id \in DOMAIN running :
      \A row \in running[id].cur :
        MakesCall(running[id]) =>
          /\ row.status = "Approved"
          /\ row.sms_enabled
          /\ 0 <= row.start_date - today
          /\ row.start_date - today <= row.days_before_vacation
          /\ ~(row.days_before_vacation = 2 /\ row.start_date - today = 3)

\* C6 witness: a sweep is at its send call for a request that starts in
\* exactly days_before_vacation = 2 days, the far edge of the window.
C6_Witness ==
    \E id \in DOMAIN running :
      \E row \in running[id].cur :
        /\ MakesCall(running[id])
        /\ row.status = "Approved"
        /\ row.days_before_vacation = 2
        /\ row.start_date - today = 2

\* an approved request of an enabled supervisor with a phone starts today
StartsToday(v) ==
    /\ vacations[v].status = "Approved"
    /\ vacations[v].start_date = today
    /\ vacations[v].supervisor_id \in DOMAIN prefs
    /\ prefs[vacations[v].supervisor_id].sms_enabled
    /\ Truthy(ResolvePhone(SweepRow(prefs[vacations[v].supervisor_id], v)))

\* C7: the window includes day 0: a sweep started today takes up every
\* approved request that starts today (enabled preference, phone available),
\* and its send step for a request that starts today sends a message worded
\* "TODAY".
C7_DayZeroIncluded ==
    [][ /\ \A id \in JobIds :
             TimerFires(id, TRUE) =>
               \A v \in Vacs :
                 StartsToday(v) =>
                   /\ id \in DOMAIN running'
                   /\ \E row \in running'[id].rows :
                        row.vacation_request_id = v
        /\ \A id \in JobIds :
             \A row \in (IF id \in DOMAIN running THEN running[id].cur
                         ELSE {}) :
               ( /\ AtSendCall(id, row)
                 /\ DaysUntilVacation(row) = 0
                 /\ SweepSend(id, TRUE, TRUE) )
               => /\ Len(sent') = Len(sent) + 1
                  /\ sent'[Len(sent')].body.phrase = "TODAY"
      ]_vars

\* the timer set js is the one the preference store calls for
TimersMatch(store, js) ==
    LET Times(s) == { store[s].notification_times[i] :
                        i \in DOMAIN store[s].notification_times }
        wanted == { <<t.hour, t.minute>> :
                      t \in UNION { Times(s) :
                                      s \in { x \in DOMAIN store :
                                                store[x].sms_enabled } } }
    IN /\ \A hm \in wanted :
            Cardinality({ j \in js : j.hour = hm[1] /\ j.minute = hm[2] }) = 1
       /\ wanted # {} =>
            \A j \in js : <<j.hour, j.minute>> \in wanted
                          /\ j.id # DefaultJobId
       /\ wanted = {} => js = {Job(DefaultJobId, 9, 0)}

\* C8: a reschedule that reads the preference store successfully leaves
\* exactly one timer per distinct (hour, minute) of the enabled preferences,
\* none for a time of disabled preferences only, none left over, and exactly
\* the 09:00 default timer when no enabled preference defines a time.
C8_RescheduleMatchesStore ==
    [][ ( \/ Startup(TRUE)
          \/ \E s \in Sups, d \in UpdateBodies :
               /\ UpdateStatus(s, d, TRUE) = 200
               /\ UpdateNotificationPreferences(s, d, TRUE, TRUE) )
        => TimersMatch(prefs', jobs') ]_vars

\* C8 witness: after an accepted update one preference is enabled, another
\* is disabled with 09:01 as its only time, and the rebuilt timer set holds
\* the 09:00 timer alone.
C8_Witness ==
    /\ resp = 200
    /\ \E s1 \in DOMAIN prefs, s2 \in DOMAIN prefs :
         /\ prefs[s1].sms_enabled
         /\ ~prefs[s2].sms_enabled
         /\ prefs[s2].notification_times[1].minute = 1
    /\ jobs = {Job(JobId(9, 0), 9, 0)}

\* C9: an accepted preference update returns with the timer set rebuilt from
\* the store as it stands after the update.
C9_AcceptedUpdateRebuilds ==
    [][ \A s \in Sups, d \in UpdateBodies, k \in BOOLEAN :
          ( /\ UpdateStatus(s, d, TRUE) = 200
            /\ UpdateNotificationPreferences(s, d, TRUE, k) )
          => TimersMatch(prefs', jobs') ]_vars

\* the request body is one the update surface does not accept
InvalidBody(d) ==
    \/ d.days_before_vacation < 0 \/ d.days_before_vacation > 30
    \/ d.notifications_per_day < 1 \/ d.notifications_per_day > 10
    \/ \E i \in 1..Len(d.notification_times) :
         LET f == d.notification_times[i]
         IN ~( \/ Len(f) = 2 /\ f[1] \in 0..23 /\ f[2] \in 0..59
               \/ Len(f) = 3 /\ f[1] \in 0..23 /\ f[2] \in 0..59
                              /\ f[3] \in 0..59 )

\* C10: a preference update out of range or with an unparsable time is
\* answered with an error and leaves the preference store and the timer set
\* as they were.
C10_InvalidUpdateRejected ==
    [][ \A s \in Sups, d \in UpdateBodies, c \in BOOLEAN, k \in BOOLEAN :
          (InvalidBody(d) /\ UpdateNotificationPreferences(s, d, c, k))
          => /\ resp' >= 400
             /\ prefs' = prefs
             /\ jobs' = jobs ]_vars

\* C10 witness: the last request was refused as invalid while a preference
\* row and a timer exist.
C10_Witness ==
    /\ resp = 400
    /\ DOMAIN prefs # {}
    /\ jobs # {}

\* the dates of a returned holiday list
HolidaySet(holidays) == { holidays[i] : i \in 1..Len(holidays) }

ReturnedFrom(fn) == call.fn = fn /\ call.returned

\* C11 as stated: for every year, get_us_holidays(year) produces exactly 9
\* holiday dates.
C11_ExactlyNineDates ==
    ReturnedFrom("get_us_holidays")
        => Cardinality(HolidaySet(call.result)) = 9

\* C11, amended: for every year, get_us_holidays(year) produces exactly 10
\* holiday dates, all different.
C11_ExactlyTenDates ==
    ReturnedFrom("get_us_holidays")
        => /\ Len(call.result) = 10
           /\ Cardinality(HolidaySet(call.result)) = 10

C11_Witness ==
    /\ ReturnedFrom("get_us_holidays")
    /\ Cardinality(HolidaySet(call.result)) = 10

\* C12: every date returned by get_us_holidays(Y) has year Y, and January 1,
\* July 4, December 24 and December 25 of Y are among the returned dates.
C12_SameYearAndFixedDates ==
    ReturnedFrom("get_us_holidays")
        => /\ \A h \in HolidaySet(call.result) : h.year = call.year
           /\ { Datetime(call.year, 1, 1), Datetime(call.year, 7, 4),
                Datetime(call.year, 12, 24), Datetime(call.year, 12, 25) }
                  \subseteq HolidaySet(call.result)

C12_Witness ==
    /\ ReturnedFrom("get_us_holidays")
    /\ Datetime(call.year, 12, 24) \in HolidaySet(call.result)
    /\ IsLeap(call.year)

\* the n-th Monday of a month: a Monday whose day is in 7n-6..7n
NthMonday(dt, year, month, n) ==
    /\ dt.year = year /\ dt.month = month
    /\ Weekday(dt) = 0
    /\ dt.day \in (7 * n - 6)..(7 * n)

\* C13: in every year, also when the 1st of the month is a Monday, the
\* computed MLK Day is the 3rd Monday of January (day 15..21), Presidents'
\* Day is the 3rd Monday of February (day 15..21) and Labor Day is the 1st
\* Monday of September (day 1..7).
C13_NthMondays ==
    ReturnedFrom("get_us_holidays")
        => /\ NthMonday(call.result[2], call.year, 1, 3)
           /\ NthMonday(call.result[3], call.year, 2, 3)
           /\ NthMonday(call.result[6], call.year, 9, 1)

\* C14: in every year the computed Memorial Day is a Monday in May 25..31,
\* the most recent Monday on or before May 31.
C14_MemorialDayIsLastMonday ==
    ReturnedFrom("get_us_holidays")
        => /\ call.result[4].year = call.year
           /\ call.result[4].month = 5
           /\ call.result[4].day \in 25..31
           /\ Weekday(call.result[4]) = 0

\* C15: is_business_day(d) is false for every Saturday and Sunday and for
\* every date in get_us_holidays(d.year), and true for every other date.
C15_BusinessDayIffWeekdayNonHoliday ==
    ReturnedFrom("is_business_day")
        => LET weekend == Weekday(call.date) \in {5, 6}
               listed == call.date \in HolidaySet(GetUsHolidays(call.date.year))
           IN  /\ (weekend \/ listed) => call.result = FALSE
               /\ ~(weekend \/ listed) => call.result = TRUE

\* a holiday that falls on a working day of the week is refused
C15_Witness ==
    /\ ReturnedFrom("is_business_day")
    /\ Weekday(call.date) < 5
    /\ call.date \in HolidaySet(GetUsHolidays(call.date.year))
    /\ call.result = FALSE

\* the dates from start to end, both included
DatesBetween(start_date, end_date) ==
    { FromOrdinal(n) : n \in ToOrdinal(start_date)..ToOrdinal(end_date) }

\* C16: calculate_business_days(start, end) is the number of dates d with
\* start <= d <= end for which is_business_day(d) holds, also across a year
\* boundary; it is 0 when end < start, and calculate_business_days(d, d) is
\* 1 if d is a business day and 0 otherwise.
C16_CountsBusinessDaysInclusive ==
    ReturnedFrom("calculate_business_days")
        => LET s == call.start_date
               e == call.end_date
           IN  /\ call.result =
                     Cardinality({ d \in DatesBetween(s, e) : IsBusinessDay(d) })
               /\ ToOrdinal(e) < ToOrdinal(s) => call.result = 0
               /\ s = e => call.result = (IF IsBusinessDay(s) THEN 1 ELSE 0)

\* a range that crosses a year boundary and ends on a business day
C16_Witness ==
    /\ ReturnedFrom("calculate_business_days")
    /\ call.start_date.year < call.end_date.year
    /\ IsBusinessDay(call.end_date)
    /\ call.result > 1

\* C17: get_next_business_day_backend(d) returns a date r with r > d and
\* is_business_day(r), with no business day strictly between d and r, also
\* when d is December 31 or is followed by a weekend next to holidays.
C17_FirstBusinessDayAfter ==
    ReturnedFrom("get_next_business_day_backend")
        => LET d == ToOrdinal(call.date)
               r == ToOrdinal(call.result)
           IN  /\ r > d
               /\ IsBusinessDay(call.result)
               /\ \A n \in (d + 1)..(r - 1) : ~IsBusinessDay(FromOrdinal(n))

\* from December 31 into the next year, over the New Year holiday
C17_Witness ==
    /\ ReturnedFrom("get_next_business_day_backend")
    /\ call.date.month = 12 /\ call.date.day = 31
    /\ call.result.year = call.date.year + 1
    /\ call.result.day > 1

\* a request body whose dates the claim says are refused
BadDates(data) ==
    /\ RequiredFields \subseteq DOMAIN data
    /\ \/ ~StrptimeYMD(data.start_date)
       \/ ~StrptimeYMD(data.end_date)
       \/ ToOrdinal(ParseYMD(data.end_date))
              < ToOrdinal(ParseYMD(data.start_date))

\* C18: every request the creation path stores is stored with status
\* 'Pending', total_hours = 8 * calculate_business_days(start_date, end_date)
\* and return_date = get_next_business_day_backend(end_date); a creation
\* with end_date < start_date or an unparsable date is answered with an
\* error and stores no request.
C18_CreationStoresComputedRow ==
    [][ /\ vacations' # vacations =>
              /\ vacations = SubSeq(vacations', 1, Len(vacations))
              /\ Len(vacations') = Len(vacations) + 1
              /\ LET r == vacations'[Len(vacations')]
                 IN  /\ r.status = "Pending"
                     /\ StrptimeYMD(r.start_date) /\ StrptimeYMD(r.end_date)
                     /\ r.total_hours =
                            8 * CalculateBusinessDays(ParseYMD(r.start_date),
                                                      ParseYMD(r.end_date))
                     /\ r.return_date =
                            StrftimeYMD(GetNextBusinessDayBackend(
                                            ParseYMD(r.end_date)))
        /\ \A s \in Callers, data \in CreateBodies,
              connOk \in BOOLEAN, insertOk \in BOOLEAN :
              (BadDates(data) /\ CreateVacationRequest(s, data, connOk, insertOk))
                  => resp' \in {400, 404, 500} /\ vacations' = vacations
      ]_vars

\* a request was stored and a later one was refused with 400
C18_Witness ==
    /\ Len(vacations) = 1
    /\ vacations[1].total_hours = 8
    /\ vacations[1].return_date = <<2024, 12, 2>>
    /\ resp = 400

\* C19: a request from 2024-07-01 to 2024-07-05 has 4 business days,
\* total_hours 32 and return_date 2024-07-08; one from 2024-12-23 to
\* 2024-12-26 has 2 business days, total_hours 16 and return_date
\* 2024-12-27.
C19_WorkedExamples ==
    \A i \in 1..Len(vacations) :
        LET r == vacations[i]
            business_days == CalculateBusinessDays(ParseYMD(r.start_date),
                                                   ParseYMD(r.end_date))
        IN  /\ (r.start_date = <<2024, 7, 1>> /\ r.end_date = <<2024, 7, 5>>)
                  => /\ business_days = 4
                     /\ r.total_hours = 32
                     /\ r.return_date = <<2024, 7, 8>>
            /\ (r.start_date = <<2024, 12, 23>> /\ r.end_date = <<2024, 12, 26>>)
                  => /\ business_days = 2
                     /\ r.total_hours = 16
                     /\ r.return_date = <<2024, 12, 27>>

\* both worked examples have been stored
C19_Witness ==
    /\ \E i \in 1..Len(vacations) :
           /\ vacations[i].start_date = <<2024, 7, 1>>
           /\ vacations[i].end_date = <<2024, 7, 5>>
    /\ \E i \in 1..Len(vacations) :
           /\ vacations[i].start_date = <<2024, 12, 23>>
           /\ vacations[i].end_date = <<2024, 12, 26>>

\* the destination the claim names for a row of the sweep
Destination(row) ==
    IF row.phone_number_override \notin {None, <<>>}
    THEN row.phone_number_override
    ELSE row.supervisor_phone

\* C20: the sweep's destination is phone_number_override when it is present
\* and non-empty, otherwise the supervisor's profile phone; when neither is
\* available the vacation is skipped: the transport is not invoked and no
\* notification-history row is appended.
C20_PhoneResolution ==
    [][ \A id \in JobIds, t \in BOOLEAN, l \in BOOLEAN :
          SweepSend(id, t, l) =>
            \A row \in running[id].cur :
              LET available == Destination(row) \notin {None, <<>>}
              IN  /\ UnderCap(running[id].count, row.notifications_per_day)
                       => (MakesCall(running[id]) <=> available)
                  /\ available => ResolvePhone(row) = Destination(row)
                  /\ ~available => history' = history /\ sent' = sent
      ]_vars

\* a sweep is at an eligible vacation whose supervisor has neither an
\* override nor a profile phone
C20_Witness ==
    \E id \in DOMAIN running :
        \E row \in running[id].cur :
            /\ UnderCap(running[id].count, row.notifications_per_day)
            /\ Destination(row) = None
            /\ row.phone_number_override = <<>>
            /\ ~MakesCall(running[id])

\* the parts of a message other than the days-until phrase
BesidesPhrase(m) ==
    [heading |-> m.heading, employee_name |-> m.employee_name,
     start_date_str |-> m.start_date_str, end_date_str |-> m.end_date_str,
     total_hours |-> m.total_hours, signature |-> m.signature]

\* the days-until phrase of a message
Phrase(m) == [phrase |-> m.phrase, number |-> m.number]

\* the phrase the claim gives for each case
ExpectedPhrase(n) ==
    IF n = 0 THEN [phrase |-> "starts vacation TODAY", number |-> <<>>]
    ELSE IF n = 1 THEN [phrase |-> "starts vacation TOMORROW", number |-> <<>>]
    ELSE [phrase |-> "starts vacation in N days", number |-> <<n>>]

\* C21 as stated: the reminder text of a vacation differs between the cases
\* daysUntil = 0, 1 and N > 1 only in the phrase (TODAY, TOMORROW, in N
\* days); the prefix "VACATION ALERT:", the date range, the total hours and
\* the signature are the same in all cases.
C21_OnlyPhraseDiffers ==
    ReturnedFrom("create_vacation_notification_message")
        => /\ Phrase(call.result) = ExpectedPhrase(call.days_until)
           /\ call.result.heading = "VACATION ALERT:"
           /\ \A n \in 0..MaxDaysUntil :
                  BesidesPhrase(CreateVacationNotificationMessage(
                                    call.vacation, n))
                      = BesidesPhrase(call.result)

\* the parts of a message other than the heading and the phrase
BesidesHeadingAndPhrase(m) ==
    [employee_name |-> m.employee_name,
     start_date_str |-> m.start_date_str, end_date_str |-> m.end_date_str,
     total_hours |-> m.total_hours, signature |-> m.signature]

\* C21, amended: the phrase is TODAY, TOMORROW or in N days; the prefix is
\* "VACATION ALERT:" for daysUntil = 0 and "VACATION REMINDER:" otherwise;
\* the employee name, the date range, the total hours and the signature are
\* the same in all cases.
C21_PhraseAndHeadingDiffer ==
    ReturnedFrom("create_vacation_notification_message")
        => /\ Phrase(call.result) = ExpectedPhrase(call.days_until)
           /\ call.result.heading =
                  (IF call.days_until = 0 THEN "VACATION ALERT:"
                   ELSE "VACATION REMINDER:")
           /\ \A n \in 0..MaxDaysUntil :
                  BesidesHeadingAndPhrase(CreateVacationNotificationMessage(
                                              call.vacation, n))
                      = BesidesHeadingAndPhrase(call.result)

C21_Witness ==
    /\ ReturnedFrom("create_vacation_notification_message")
    /\ call.days_until = 1
    /\ call.result.heading = "VACATION REMINDER:"
    /\ call.result.phrase = "starts vacation TOMORROW"
    /\ call.result.total_hours = 8

\* C22: an exception while one candidate vacation is processed does not end
\* the sweep: the candidates not yet processed stay in the loop, each is
\* evaluated in its turn, and the sweep ends only when none is left.
C22_SweepSurvivesRowFailure ==
    [][ \A id \in DOMAIN running :
          LET sw == running[id]
          IN  /\ id \notin DOMAIN running'
                    => \/ sw.cur # {} /\ sw.rows = {}
                       \/ sw.cur = {} /\ Cardinality(sw.rows) = 1
              /\ (id \in DOMAIN running' /\ running'[id] # sw)
                    => \/ sw.cur # {} /\ running'[id].rows = sw.rows
                       \/ /\ sw.cur = {}
                          /\ \E row \in sw.rows :
                                 running'[id].rows = sw.rows \ {row}
      ]_vars

\* a sweep is at the send call of its last candidate after the call for an
\* earlier candidate of the same sweep raised
C22_Witness ==
    \E id \in DOMAIN running :
        /\ running[id].rows = {}
        /\ MakesCall(running[id])
        /\ \E row \in running[id].cur, earlier \in UpcomingVacations :
               /\ earlier.vacation_request_id # row.vacation_request_id
               /\ InWindow(DaysUntilVacation(earlier),
                           earlier.days_before_vacation)
               /\ Truthy(ResolvePhone(earlier))

\* the characters of p other than '-', '(', ')' and space, in order
RECURSIVE WithoutPunctuation(_)
WithoutPunctuation(p) ==
    IF p = <<>> THEN <<>>
    ELSE IF Head(p) \in {"-", "(", ")", " "} THEN WithoutPunctuation(Tail(p))
    ELSE <<Head(p)>> \o WithoutPunctuation(Tail(p))

\* the number the claim says is handed to the transport
Normalized(p) ==
    IF p[1] = "+" THEN p
    ELSE IF p[1] = "1" THEN <<"+">> \o p
    ELSE <<"+", "1">> \o WithoutPunctuation(p)

\* C24: before sending, a number that starts with "+" is left unchanged;
\* otherwise a number that starts with "1" only gets "+" prepended, nothing
\* stripped; otherwise '-', '(', ')' and space are removed and "+1" is
\* prepended.
C24_PhoneNormalization ==
    [][ \A s \in Callers, phone \in TestPhones,
           connOk \in BOOLEAN, transportOk \in BOOLEAN :
          (TestSmsNotification(s, phone, connOk, transportOk)
             /\ Len(sent') = Len(sent) + 1)
            => sent'[Len(sent')].to = Normalized(TestPhone(s, phone))
      ]_vars

\* one number of each of the three kinds has been sent to
C24_Witness ==
    /\ Len(sent) = 3
    /\ sent[1].to = <<"+", "5", "-", "7">>
    /\ sent[2].to = <<"+", "1", "-", "5">>
    /\ sent[3].to = <<"+", "1", "5", "7">>

InLoop == call.fn = "next_business_day_loop" /\ ~call.returned

\* C25: get_next_business_day_backend(d) terminates for every date d: the
\* walk forward from d + 1 reaches a business day after finitely many steps
\* (here: never more than 10 days after d).
C25_WalkTerminates ==
    /\ [](call.fn = "next_business_day_loop"
            => ToOrdinal(call.next_day) - ToOrdinal(call.date) \in 1..10)
    /\ InLoop ~> (call.fn = "next_business_day_loop" /\ call.returned)

\* a walk over a weekend and two holidays has returned
C25_Witness ==
    /\ call.fn = "next_business_day_loop" /\ call.returned
    /\ ToOrdinal(call.result) - ToOrdinal(call.date) >= 5
    /\ call.result = GetNextBusinessDayBackend(call.date)

\* C26: after every run of schedule_notification_jobs, at startup or after
\* an accepted preference update, also one whose store connection fails, at
\* least one timer is registered.
C26_TimerAlwaysRegistered == started => jobs # {}

\* the clock time of the timer with this id is one of supervisor s's stored
\* notification_times
OwnTime(id, s) ==
    /\ s \in DOMAIN prefs
    /\ \E i \in DOMAIN prefs[s].notification_times :
         /\ prefs[s].notification_times[i].hour = id.hh
         /\ prefs[s].notification_times[i].minute = id.mm

Pair(row) == <<row.supervisor_id, row.vacation_request_id>>

\* the rows a sweep has not finished with: the fetched rows not yet reached
\* and the row of the current iteration
Unfinished(sw) == sw.rows \cup sw.cur

\* number of history rows of a pair
HistoryRows(h, pair) ==
    Cardinality({ i \in 1..Len(h) :
                    <<h[i].supervisor_id, h[i].vacation_request_id>> = pair })

\* C29: a single sweep makes at most one send attempt per (supervisor,
\* vacation request) pair: the rows of a sweep have pairwise different
\* pairs, a row that has had its iteration never comes back into the loop,
\* and one iteration adds at most one history row, for its own pair only.
C29_OneAttemptPerPair ==
    /\ [](\A id \in DOMAIN running :
            /\ running[id].cur \cap running[id].rows = {}
            /\ \A r1 \in Unfinished(running[id]),
                  r2 \in Unfinished(running[id]) :
                    Pair(r1) = Pair(r2) => r1 = r2)
    /\ [][ \A id \in DOMAIN running :
             /\ id \in DOMAIN running' =>
                   /\ running'[id].rows \subseteq running[id].rows
                   /\ running'[id].cur \subseteq Unfinished(running[id])
                   /\ running[id].cur \cap Unfinished(running'[id]) = {}
                        \/ running'[id] = running[id]
             /\ \A t \in BOOLEAN, l \in BOOLEAN :
                   SweepSend(id, t, l) =>
                     \A s \in Sups, v \in Vacs :
                       /\ HistoryRows(history', <<s, v>>)
                             <= HistoryRows(history, <<s, v>>) + 1
                       /\ HistoryRows(history', <<s, v>>)
                             # HistoryRows(history, <<s, v>>)
                           => \E row \in running[id].cur : Pair(row) = <<s, v>>
         ]_vars

\* a sweep is at the send call for one vacation of a supervisor while
\* another vacation of the same supervisor is still waiting in the loop
C29_Witness ==
    \E id \in DOMAIN running :
        /\ MakesCall(running[id])
        /\ running[id].rows # {}
        /\ \A row \in running[id].cur, other \in running[id].rows :
               /\ other.supervisor_id = row.supervisor_id
               /\ other.vacation_request_id # row.vacation_request_id

\* C30: approve and deny by the request's supervisor are accepted whatever
\* the request's current status, and a sweep that starts holds only requests
\* that are Approved at that moment and never takes up another one later:
\* a request denied before the sweep starts gets no reminder from it.
C30_DeniedNotReminded ==
    [][ /\ \A s \in Sups, v \in Vacs :
             /\ (vacations[v].supervisor_id = s
                    /\ ApproveVacationRequest(s, v, TRUE))
                  => resp' = 200 /\ vacations'[v].status = "Approved"
             /\ (vacations[v].supervisor_id = s
                    /\ DenyVacationRequest(s, v, TRUE))
                  => resp' = 200 /\ vacations'[v].status = "Denied"
        /\ \A id \in DOMAIN running' :
             IF id \in DOMAIN running
             THEN running'[id].rows \cup running'[id].cur
                    \subseteq running[id].rows \cup running[id].cur
             ELSE \A row \in running'[id].rows \cup running'[id].cur :
                    vacations[row.vacation_request_id].status = "Approved"
      ]_vars

\* request 1, approved at first, is Denied, its denial was the last request
\* handled, and a sweep that has just fetched its rows holds the other
\* request only
C30_Witness ==
    /\ today = 0
    /\ resp = 200
    /\ vacations[1].status = "Denied"
    /\ \E id \in DOMAIN running :
         /\ running[id].cur = {}
         /\ running[id].rows = UpcomingVacations
         /\ \A row \in running[id].rows : row.vacation_request_id = 2

=============================================================================
